---- MODULE Spec2Model ----
(***************************************************************************)
(* Model of the NPC engagement engine of the Second Life AI bot server:    *)
(* the per-speaker message buffer (services/message-buffer.ts), the        *)
(* decision layer (services/decision-layer.ts), the NPC state machine with *)
(* its tick loop and long-poll rendezvous (services/state-machine.ts) and  *)
(* the NPC flow of the /chat handler (routes/chat.ts).                     *)
(*                                                                         *)
(* Node.js runs one macrotask at a time: an HTTP handler runs up to its    *)
(* first real suspension (the long poll or the provider call), a timer     *)
(* callback runs to completion, and the continuation of an already         *)
(* resolved promise runs before the next macrotask.  Each action below is  *)
(* one such macrotask together with the microtasks it triggers.            *)
(*                                                                         *)
(* Time is Date.now() in milliseconds.  The clock moves with the interval  *)
(* timer: a tick advances it by tickIntervalMs, and what happens between   *)
(* two ticks is stamped with the time of the earlier one.  Scores are kept *)
(* as integers by multiplying them with ScoreScale.                        *)
(***************************************************************************)
EXTENDS Integers, Sequences, FiniteSets, TLC

\* ------------------------------------------------------------------ bounds
Epoch == 100000              \* Date.now() when the server is constructed
MaxTicks == 5                \* number of tick intervals explored
MaxRequests == 2             \* concurrently open HTTP requests
MaxMessages == 3             \* POST /chat bodies received in one run
RandomSteps == 2             \* Math.random() of the score bonus: k / RandomSteps
LiveMaxMessages == 2         \* POST bodies received in one run under LiveSpec
QuietIngestTicks == 1        \* intervals during which POST bodies arrive under QuietSpec
QuietTicks == 14             \* tick intervals explored under QuietSpec
ChanceSteps == 5             \* Math.random() of the response chance: k / ChanceSteps

\* configuration (environment variables), at small values
tickIntervalMs == 1000
listeningMs == 2000
thinkingMs == 2000
speakingCooldownMs == 1000
maxMessagesPerAvatar == 2
maxTotalBufferSize == 2
expiryMs == 4000
cooldownMs == 2000
aggregationWindowMs == 1000
maxHistoryMessages == 2

\* lengths of the texts, in characters
personaLength == 8           \* the persona system prompt
speakerPrefixLength == 9     \* `[${speaker}]: `
utteranceLength == 4         \* one buffered utterance
replyLength == 6             \* a reply of the provider
hintLength == 58             \* the address hint

\* the conversation service on its own
MaxHistoryLen == 4           \* messages in the history, the system prompt included
ContentLengths == {0, 20}    \* lengths of the texts appended
ContextTokens == {2, 8, 16}  \* CONTEXT_MAX_TOKENS

\* the memory service in the prompt
MaxMemories == 3             \* entries in the store
MaxAccessCount == 2          \* retrievals of one entry
MaxMemoryTurns == 2          \* user turns matched against the store

\* refusals at the boundary
MaxRateLimit == 2            \* RATE_LIMIT_MAX

\* the rate limiter on its own
MaxWindowLimit == 4          \* RATE_LIMIT_MAX
MaxElapses == 5              \* half windows of time passing

\* configuration kept at its default
responseThreshold == 50
responseChancePct == 80
directMentionBonus == 100
recentInteractionBonus == 30
messageCountMultiplier == 5
consecutiveBonus == 10
maxTimeDecay == 20
timeDecayRate == 2
randomnessRange == 10

defaultMaxMessagesPerAvatar == 10
defaultMaxRequestsPerHour == 40
defaultTokenBudget == 500
defaultMaxContextTokens == 8000
defaultSystemPromptMaxPercent == 80
windowMs == 3600000

\* constants of the code
activeConversationBonus == 60
thirtySecondsMs == 30000
oneHourMs == 3600000
msPerMinute == 60000
maxCheck == 5
maxConsecutive == 3
charsPerToken == 4
roleOverhead == 5
recentCount == 5
memoryPrefixLength == 9

Speakers == {"alice", "bob"}
Requests == 1..MaxRequests
NoTarget == "null"
MaxTime == Epoch + MaxTicks * tickIntervalMs

VARIABLES
    now,                \* Date.now()
    state,              \* NPCStateMachineService.state
    stateEnteredAt,     \* NPCStateMachineService.stateEnteredAt
    activeTarget,       \* NPCStateMachineService.activeTarget
    pendingDecisions,   \* NPCStateMachineService.pendingDecisions
    listeners,          \* listeners of 'decision-made', in registration order
    buffers,            \* MessageBufferService.buffers (insertion-ordered Map)
    lastResponseTime,   \* DecisionLayerService.lastResponseTime (0: no entry)
    req,                \* the open /chat requests
    history,            \* ConversationService.history
    memories,           \* MemoryService.memories (insertion-ordered Map)
    rateLimiter,        \* RateLimiterService: requestCount, windowStartTime
    config,             \* the configuration read when the services are constructed
    prompts,            \* the prompts handed to the provider by the latest step
    received,           \* number of POST bodies received so far
    verdict,            \* result of makeDecision, when the latest step is a tick
    answered            \* HTTP response sent by the latest step, if any

smVars == <<state, stateEnteredAt, activeTarget, pendingDecisions, listeners>>
vars == <<now, state, stateEnteredAt, activeTarget, pendingDecisions,
          listeners, buffers, lastResponseTime, req, history, memories,
          rateLimiter, config, prompts, received, verdict, answered>>

\* ------------------------------------------------------------ small helpers
Min(a, b) == IF a < b THEN a ELSE b
Max(a, b) == IF a > b THEN a ELSE b

RECURSIVE SumLen(_)
SumLen(bufs) ==
    IF bufs = << >> THEN 0 ELSE Len(Head(bufs).messages) + SumLen(Tail(bufs))

RemoveAt(s, i) == [j \in 1..(Len(s) - 1) |-> IF j < i THEN s[j] ELSE s[j + 1]]

NoDecision == [shouldRespond |-> FALSE, targetAvatarId |-> NoTarget, madeAt |-> 0]
IdleRequest == [pc |-> "idle", avatarId |-> NoTarget, deadline |-> 0,
                via |-> "none", decision |-> NoDecision,
                aggregated |-> << >>, historyLen |-> 0]
NoAnswer == [route |-> "none", avatarId |-> NoTarget, status |-> 0]

\* ----------------------------------------------------------- message buffer
has(bufs, avatarId) == \E i \in 1..Len(bufs) : bufs[i].avatarId = avatarId
indexOf(bufs, avatarId) == CHOOSE i \in 1..Len(bufs) : bufs[i].avatarId = avatarId

getTotalBufferSize(bufs) == SumLen(bufs)

cleanExpiredMessages(bufs, t) ==
    LET kept(b) == SelectSeq(b.messages, LAMBDA m : t - m.receivedAt <= expiryMs)
        filtered == [i \in 1..Len(bufs) |->
                        [bufs[i] EXCEPT !.messages = kept(bufs[i]),
                                        !.totalMessages = Len(kept(bufs[i]))]]
    IN  SelectSeq(filtered, LAMBDA b : Len(b.messages) # 0)

evictNothing(bufs) == bufs

\* an eviction that takes the first utterance of the buffer whose first
\* utterance is the newest
evictNewestMessage(bufs) ==
    LET nonEmpty == {i \in 1..Len(bufs) : Len(bufs[i].messages) # 0}
        newest == CHOOSE i \in nonEmpty :
                    \A j \in nonEmpty :
                        \/ bufs[i].messages[1].receivedAt > bufs[j].messages[1].receivedAt
                        \/ /\ bufs[i].messages[1].receivedAt = bufs[j].messages[1].receivedAt
                           /\ i >= j
        shifted == [bufs EXCEPT ![newest].messages = Tail(@),
                                ![newest].totalMessages = @ - 1]
    IN  IF nonEmpty = {} THEN bufs
        ELSE IF Len(shifted[newest].messages) = 0 THEN RemoveAt(shifted, newest)
        ELSE shifted

evictOldestMessage(bufs) ==
    LET nonEmpty == {i \in 1..Len(bufs) : Len(bufs[i].messages) # 0}
        \* the scan keeps the first entry, in Map order, with the smallest receivedAt
        oldest == CHOOSE i \in nonEmpty :
                    \A j \in nonEmpty :
                        \/ bufs[i].messages[1].receivedAt < bufs[j].messages[1].receivedAt
                        \/ /\ bufs[i].messages[1].receivedAt = bufs[j].messages[1].receivedAt
                           /\ i <= j
        shifted == [bufs EXCEPT ![oldest].messages = Tail(@),
                                ![oldest].totalMessages = @ - 1]
    IN  IF nonEmpty = {} THEN bufs
        ELSE IF Len(shifted[oldest].messages) = 0 THEN RemoveAt(shifted, oldest)
        ELSE shifted

addMessage(bufs, avatarId, isDirectMention, t) ==
    LET message == [receivedAt |-> t, isDirectMention |-> isDirectMention]
        created == IF has(bufs, avatarId) THEN bufs
                   ELSE Append(bufs, [avatarId |-> avatarId, messages |-> << >>,
                                      firstMessageAt |-> t,
                                      totalMessages |-> 0, lastRespondedAt |-> 0])
        i == indexOf(created, avatarId)
        pushed == [created EXCEPT ![i].messages = Append(@, message),
                                  ![i].totalMessages = @ + 1]
        capped == IF Len(pushed[i].messages) > maxMessagesPerAvatar
                  THEN [pushed EXCEPT ![i].messages = Tail(@)]
                  ELSE pushed
        cleaned == cleanExpiredMessages(capped, t)
    IN  IF getTotalBufferSize(cleaned) > maxTotalBufferSize
        THEN evictOldestMessage(cleaned)
        ELSE cleaned

clearBuffer(bufs, avatarId) ==
    IF has(bufs, avatarId)
    THEN [bufs EXCEPT ![indexOf(bufs, avatarId)].messages = << >>,
                      ![indexOf(bufs, avatarId)].totalMessages = 0]
    ELSE bufs

clearAll(bufs) == << >>

updateLastResponded(bufs, avatarId, t) ==
    IF has(bufs, avatarId)
    THEN [bufs EXCEPT ![indexOf(bufs, avatarId)].lastRespondedAt = t]
    ELSE bufs

\* the utterances whose texts are joined with ' ', in insertion order
getAggregatedContent(bufs, avatarId, t) ==
    IF ~has(bufs, avatarId) THEN << >>
    ELSE LET messages == bufs[indexOf(bufs, avatarId)].messages
         IN  SelectSeq(messages, LAMBDA m : \/ t - m.receivedAt <= aggregationWindowMs
                                            \/ Len(messages) = 1)

\* ---------------------------------------------------------- token estimator
\* estimateTokens: Math.ceil(text.length / CHARS_PER_TOKEN), 0 for ''
estimateTokens(content) ==
    IF content.length = 0 THEN 0
    ELSE (content.length + charsPerToken - 1) \div charsPerToken

\* the loop of calculateMessagesFitInBudget, from the newest message (index i)
\* down; it stops at the first message that does not fit
RECURSIVE fitFrom(_, _, _, _, _)
fitFrom(messages, budget, i, tokenCount, messageCount) ==
    IF i < 1 THEN messageCount
    ELSE LET messageTokens == estimateTokens(messages[i].content) + roleOverhead
         IN  IF tokenCount + messageTokens <= budget
             THEN fitFrom(messages, budget, i - 1, tokenCount + messageTokens,
                          messageCount + 1)
             ELSE messageCount

calculateMessagesFitInBudget(messages, budget) ==
    IF Len(messages) = 0 \/ budget <= 0 THEN 0
    ELSE fitFrom(messages, budget, Len(messages), 0, 0)

\* Array.prototype.slice(-n) for n >= 0: -0 is 0, so slice(-0) is the whole array
sliceLast(s, n) ==
    IF n = 0 \/ n >= Len(s) THEN s ELSE SubSeq(s, Len(s) - n + 1, Len(s))

\* Array.prototype.slice(1)
sliceRest(s) == IF Len(s) = 0 THEN s ELSE Tail(s)

\* Array.prototype.splice(1, 0, item)
spliceAtOne(s, item) ==
    IF Len(s) = 0 THEN <<item>> ELSE <<Head(s), item>> \o Tail(s)

\* ------------------------------------------------------------------- memory
\* A MemoryEntry is [id, keywords, length, priority, accessCount]: length is
\* the length of its content; the store is the insertion-ordered Map.
matchedKeywords(memory, words) == memory.keywords \cap words

calculateScore(memory, matched) ==
    memory.priority * 10 + Cardinality(matched) * 5
        + (IF memory.accessCount > 0 THEN 2 ELSE 0)

\* matches.sort((a, b) => b.score - a.score): descending, stable
sortByScore(matches) ==
    LET n == Len(matches)
        rank(i) == 1 + Cardinality({j \in 1..n :
                        \/ matches[j].score > matches[i].score
                        \/ matches[j].score = matches[i].score /\ j < i})
    IN  [k \in 1..n |-> matches[CHOOSE i \in 1..n : rank(i) = k]]

\* a selection that passes over an entry that does not fit and goes on
RECURSIVE selectSkipping(_, _, _, _)
selectSkipping(entries, maxTokens, i, currentTokens) ==
    IF i > Len(entries) THEN << >>
    ELSE LET estimatedTokens == estimateTokens(entries[i])
         IN  IF currentTokens + estimatedTokens <= maxTokens
             THEN <<entries[i]>> \o selectSkipping(entries, maxTokens, i + 1,
                                                   currentTokens + estimatedTokens)
             ELSE selectSkipping(entries, maxTokens, i + 1, currentTokens)

\* a selection without a budget
RECURSIVE selectAll(_, _, _, _)
selectAll(entries, maxTokens, i, currentTokens) ==
    IF i > Len(entries) THEN << >>
    ELSE <<entries[i]>> \o selectAll(entries, maxTokens, i + 1, currentTokens)

\* the loop of selectByTokenBudget from entry i on: break at the first entry
\* that does not fit
RECURSIVE selectByTokenBudget(_, _, _, _)
selectByTokenBudget(entries, maxTokens, i, currentTokens) ==
    IF i > Len(entries) THEN << >>
    ELSE LET estimatedTokens == estimateTokens(entries[i])
         IN  IF currentTokens + estimatedTokens <= maxTokens
             THEN <<entries[i]>> \o selectByTokenBudget(entries, maxTokens, i + 1,
                                                        currentTokens + estimatedTokens)
             ELSE << >>

\* the matches of the store against the words of the recent texts, sorted
matchesOf(mems, words) ==
    LET matching == SelectSeq(mems, LAMBDA m : matchedKeywords(m, words) # {})
    IN  sortByScore([i \in 1..Len(matching) |->
                        [entry |-> matching[i],
                         score |-> calculateScore(matching[i],
                                       matchedKeywords(matching[i], words))]])

\* getRelevantMemories: the selected entries as they are when selected, and the
\* store with their access counts raised
getRelevantMemories(mems, words, maxTokens) ==
    LET matches == matchesOf(mems, words)
        selected == selectByTokenBudget([i \in 1..Len(matches) |-> matches[i].entry],
                                        maxTokens, 1, 0)
        ids == {selected[k].id : k \in 1..Len(selected)}
    IN  [selected |-> selected,
         memories |-> [i \in 1..Len(mems) |->
                          IF mems[i].id \in ids
                          THEN [mems[i] EXCEPT !.accessCount = @ + 1]
                          ELSE mems[i]]]

\* ------------------------------------------------------------- conversation
\* A Message is [role, content].  A content (a string in the code) is kept as
\* what is read of it: which text it is, the speaker it names, the memory entry
\* it quotes, its length in characters and the memory keywords occurring in it.
Content(text, avatarId, entry, length, words) ==
    [text |-> text, avatarId |-> avatarId, entry |-> entry, length |-> length,
     words |-> words]

systemPrompt == Content("persona", NoTarget, 0, personaLength, {})
SystemMessage == [role |-> "system", content |-> systemPrompt]

\* `[${speaker}]: ${aggregatedContent}` (chat.ts line 108): the utterances are
\* joined with ' '
messageWithSpeaker(avatarId, aggregated) ==
    Content("utterances", avatarId, 0,
            speakerPrefixLength
              + (IF Len(aggregated) = 0 THEN 0
                 ELSE Len(aggregated) * utteranceLength + Len(aggregated) - 1),
            {})

\* the reply of the provider to the speaker
fullContent(avatarId) == Content("reply", avatarId, 0, replyLength, {})

\* chat.ts lines 124-127
contextMessage(avatarId) ==
    [role |-> "system", content |-> Content("hint", avatarId, 0, hintLength, {})]

\* conversation.ts lines 124-127: `[Memory] ${m.content}`
memoryMessage(m) ==
    [role |-> "system",
     content |-> Content("[Memory] ", NoTarget, m.id, memoryPrefixLength + m.length, {})]

addUserMessage(h, content) == Append(h, [role |-> "user", content |-> content])

trimHistory(h) ==
    IF Len(h) <= config.maxHistoryMessages + 1 THEN h
    ELSE <<h[1]>> \o sliceLast(h, config.maxHistoryMessages)

addAssistantMessage(h, content) ==
    trimHistory(Append(h, [role |-> "assistant", content |-> content]))

\* a pop without the length test of line 214
popLast(h) == SubSeq(h, 1, Len(h) - 1)

removeLastMessage(h) == IF Len(h) > 1 THEN SubSeq(h, 1, Len(h) - 1) ELSE h

saveAndReset(h) == <<SystemMessage>>

\* The three getters return the messages and whether the array returned is
\* this.history itself (shared) or a new array.
getHistory(h) == [messages |-> h, shared |-> TRUE]

getHistoryWithBudget(h) ==
    IF ~config.budgetEnabled THEN getHistory(h)
    ELSE LET systemMsg == h[1]
             systemTokens == estimateTokens(systemMsg.content)
             systemBudget == (config.maxContextTokens * config.systemPromptMaxPercent)
                                 \div 100
             historyBudget == config.maxContextTokens - Min(systemTokens, systemBudget)
             conversationMsgs == sliceRest(h)
             messagesToInclude == calculateMessagesFitInBudget(conversationMsgs,
                                                               historyBudget)
         IN  [messages |-> <<systemMsg>> \o sliceLast(conversationMsgs, messagesToInclude),
              shared |-> FALSE]

\* the words of recentMessages.join(' '): the last 5 conversation messages
recentWords(h) ==
    LET recentMessages == sliceLast(sliceRest(h), recentCount)
    IN  UNION {recentMessages[k].content.words : k \in 1..Len(recentMessages)}

RECURSIVE sumTokens(_)
sumTokens(entries) ==
    IF entries = << >> THEN 0
    ELSE estimateTokens(Head(entries)) + sumTokens(Tail(entries))

\* also returns the store as getRelevantMemories leaves it
getHistoryWithMemories(h, mems, memoryTokenBudget) ==
    LET conversationMsgs == sliceRest(h)
        relevant == getRelevantMemories(mems, recentWords(h), memoryTokenBudget)
        systemMsg == h[1]
        memoryMessages == [k \in 1..Len(relevant.selected) |->
                              memoryMessage(relevant.selected[k])]
        usedTokens == estimateTokens(systemMsg.content) + sumTokens(relevant.selected)
        historyBudget == Max(0, config.maxContextTokens - usedTokens)
        chatHistory == IF config.budgetEnabled
                       THEN sliceLast(conversationMsgs,
                                      calculateMessagesFitInBudget(conversationMsgs,
                                                                   historyBudget))
                       ELSE conversationMsgs
    IN  [messages |-> <<systemMsg>> \o memoryMessages \o chatHistory,
         shared |-> FALSE, memories |-> relevant.memories]

\* chat.ts lines 113-130 for the history h (the user turn is in it) and the store
\* mems: the prompt handed to the provider, and the history and the store as the
\* handler leaves them
buildPrompt(h, mems, avatarId) ==
    LET withMemories == getHistoryWithMemories(h, mems, config.tokenBudget)
        got == IF config.memoryEnabled
               THEN [messages |-> withMemories.messages, shared |-> withMemories.shared]
               ELSE IF config.budgetEnabled THEN getHistoryWithBudget(h)
               ELSE getHistory(h)
        history2 == spliceAtOne(got.messages, contextMessage(avatarId))
    IN  [prompt |-> history2,
         history |-> IF got.shared THEN history2 ELSE h,
         memories |-> IF config.memoryEnabled THEN withMemories.memories ELSE mems]

\* ----------------------------------------------------------- decision layer
\* Scores are multiplied by ScoreScale so that the age decay
\* (ageMs / 60000 * timeDecayRate) and the random bonus
\* (k / RandomSteps * randomnessRange) stay integers.
ScoreScale == msPerMinute * RandomSteps

countConsecutiveMessages(buffer) ==
    IF Len(buffer.messages) = 0 THEN 0
    ELSE Min(Len(buffer.messages), maxCheck)

\* step 1 of calculatePriority (lines 163-166)
noMentionBonus(buffer) == 0

mentionBonus(buffer) ==
    IF \E k \in 1..Len(buffer.messages) : buffer.messages[k].isDirectMention
    THEN directMentionBonus ELSE 0

\* rnd is the Math.random() draw of step 6, as k in 0..RandomSteps-1
calculatePriority(buffer, t, rnd) ==
    LET mention == mentionBonus(buffer)
        timeSinceResponse == t - buffer.lastRespondedAt
        recent == IF buffer.lastRespondedAt # 0
                  THEN IF timeSinceResponse <= thirtySecondsMs THEN activeConversationBonus
                       ELSE IF timeSinceResponse <= oneHourMs THEN recentInteractionBonus
                       ELSE 0
                  ELSE 0
        messageBonus == Len(buffer.messages) * messageCountMultiplier
        consecutive == Min(countConsecutiveMessages(buffer) * consecutiveBonus,
                           maxConsecutive * consecutiveBonus)
        timeDecay == Min((t - buffer.firstMessageAt) * timeDecayRate * RandomSteps,
                         maxTimeDecay * ScoreScale)
        randomBonus == rnd * randomnessRange * msPerMinute
    IN  Max(0, (mention + recent + messageBonus + consecutive) * ScoreScale
               - timeDecay + randomBonus)

\* no scan: the first buffer
firstIndex(bufs, t, rnds, i, best) == 1

\* a scan in which a later buffer with an equal score replaces the best
RECURSIVE lastBestIndex(_, _, _, _, _)
lastBestIndex(bufs, t, rnds, i, best) ==
    IF i > Len(bufs) THEN best
    ELSE IF best = 0 \/ calculatePriority(bufs[i], t, rnds[i])
                          >= calculatePriority(bufs[best], t, rnds[best])
         THEN lastBestIndex(bufs, t, rnds, i + 1, i)
         ELSE lastBestIndex(bufs, t, rnds, i + 1, best)

\* the scan of lines 46-54: a later entry replaces the best only when strictly greater
RECURSIVE bestIndex(_, _, _, _, _)
bestIndex(bufs, t, rnds, i, best) ==
    IF i > Len(bufs) THEN best
    ELSE IF best = 0 \/ calculatePriority(bufs[i], t, rnds[i])
                          > calculatePriority(bufs[best], t, rnds[best])
         THEN bestIndex(bufs, t, rnds, i + 1, i)
         ELSE bestIndex(bufs, t, rnds, i + 1, best)

\* lines 131-133: this.lastResponseTime.set(bestAvatarId, Date.now())
recordNothing(lrt, avatarId, t) == lrt

recordResponse(lrt, avatarId, t) == [lrt EXCEPT ![avatarId] = t]

\* rnds[i]: the random bonus draw for the i-th buffer; chance: the draw of line 58.
\* Returns the DecisionResult and the updated lastResponseTime map.
makeDecision(bufs, lrt, t, rnds, chance) ==
    IF Len(bufs) = 0
    THEN [shouldRespond |-> FALSE, targetAvatarId |-> NoTarget,
          reason |-> "no messages buffered", priorityScore |-> 0, lastResponseTime |-> lrt]
    ELSE
    LET best == bestIndex(bufs, t, rnds, 1, 0)
        bestAvatarId == bufs[best].avatarId
        bestScore == calculatePriority(bufs[best], t, rnds[best])
        meetsThreshold == bestScore >= responseThreshold * ScoreScale
        passesChance == chance * 100 < responseChancePct * ChanceSteps
        shouldRespond == meetsThreshold /\ passesChance
        timeSinceLastResponse == t - lrt[bestAvatarId]
        isActiveConversation == bufs[best].totalMessages > 1
    IN  IF shouldRespond /\ timeSinceLastResponse < cooldownMs /\ ~isActiveConversation
        THEN [shouldRespond |-> FALSE, targetAvatarId |-> NoTarget,
              reason |-> "cooldown active", priorityScore |-> bestScore,
              lastResponseTime |-> lrt]
        ELSE IF ~shouldRespond
        THEN [shouldRespond |-> FALSE, targetAvatarId |-> NoTarget,
              reason |-> IF ~meetsThreshold THEN "score below threshold"
                         ELSE "random chance rejected",
              priorityScore |-> bestScore, lastResponseTime |-> lrt]
        ELSE [shouldRespond |-> TRUE, targetAvatarId |-> bestAvatarId,
              reason |-> "selected for response", priorityScore |-> bestScore,
              lastResponseTime |-> recordResponse(lrt, bestAvatarId, t)]

keepHistory(lrt) == lrt

clearHistory(lrt) == [s \in Speakers |-> 0]

\* ------------------------------------------------------------ state machine
\* transitionTo: no change (stateEnteredAt kept) when the state is the same
transitionTo(st, enteredAt, newState, t) ==
    IF newState = st THEN [state |-> st, stateEnteredAt |-> enteredAt]
    ELSE [state |-> newState, stateEnteredAt |-> t]

\* --------------------------------------------------------------- rate limiter
\* RateLimiterService.check at time t: the verdict and the limiter afterwards
\* a check that counts the refused requests as well
countEvery(limiter, t) ==
    [allowed |-> limiter.requestCount < config.maxRequestsPerHour,
     limiter |-> [limiter EXCEPT !.requestCount = @ + 1]]

allowAll(limiter, t) ==
    [allowed |-> TRUE, limiter |-> [limiter EXCEPT !.requestCount = @ + 1]]

check(limiter, t) ==
    LET expired == t - limiter.windowStartTime > windowMs
        requestCount == IF expired THEN 0 ELSE limiter.requestCount
        windowStartTime == IF expired THEN t ELSE limiter.windowStartTime
        allowed == requestCount < config.maxRequestsPerHour
    IN  [allowed |-> allowed,
         limiter |-> [requestCount |-> IF allowed THEN requestCount + 1
                                       ELSE requestCount,
                      windowStartTime |-> windowStartTime]]

\* RateLimiterService.getStatus: the status, read without a change
getStatus(limiter) ==
    [allowed |-> limiter.requestCount < config.maxRequestsPerHour,
     current |-> limiter.requestCount,
     max |-> config.maxRequestsPerHour,
     resetTime |-> limiter.windowStartTime + windowMs]

\* the configuration with the conversation and rate-limit settings at their
\* defaults, but for the history cap
DefaultConfig ==
    [memoryEnabled |-> TRUE, tokenBudget |-> defaultTokenBudget,
     budgetEnabled |-> FALSE, maxContextTokens |-> defaultMaxContextTokens,
     systemPromptMaxPercent |-> defaultSystemPromptMaxPercent,
     maxHistoryMessages |-> maxHistoryMessages,
     maxRequestsPerHour |-> defaultMaxRequestsPerHour]

\* what does not belong to the NPC engine, after construction with a persona
\* that has no facts
ServicesInit ==
    /\ history = <<SystemMessage>>
    /\ memories = << >>
    /\ rateLimiter = [requestCount |-> 0, windowStartTime |-> Epoch]
    /\ prompts = << >>

EngineInit ==
    /\ now = Epoch
    /\ state = "IDLE"
    /\ stateEnteredAt = Epoch
    /\ activeTarget = NoTarget
    /\ pendingDecisions = [s \in Speakers |-> NoDecision]
    /\ listeners = << >>
    /\ buffers = << >>
    /\ lastResponseTime = [s \in Speakers |-> 0]
    /\ req = [r \in Requests |-> IdleRequest]
    /\ answered = NoAnswer
    /\ received = 0
    /\ verdict = NoDecision

Init ==
    /\ config = DefaultConfig
    /\ ServicesInit
    /\ EngineInit

\* ------------------------------------------------------------------ actions
\* the guard of line 78 of onMessageReceived
startsListeningAlways(st) == TRUE

startsListening(st) == st = "IDLE"

\* the test of line 115 in the 'decision-made' listener of a waiter
isForAnyWaiter(decision, avatarId) == TRUE

isForWaiter(decision, avatarId) == decision.targetAvatarId = avatarId

\* line 274 of handleListeningTick
hasNoListeners(ls) == FALSE

hasListeners(ls) == Len(ls) > 0

\* line 102 of waitForDecision
keepPending(pending, avatarId) == pending

deletePending(pending, avatarId) == [pending EXCEPT ![avatarId] = NoDecision]

\* removeListeners of the waiters rs (lines 124-126)
keepListeners(ls, rs) == ls

removeListeners(ls, rs) == SelectSeq(ls, LAMBDA x : x \notin rs)

\* the setTimeout of waitForDecision (lines 108-112) fires before the next tick
timerNeverDue(r) == FALSE

timerDue(r) == req[r].pc = "waiting" /\ req[r].deadline < now + tickIntervalMs

\* lines 113-130 of a released handler whose user turn is in withTurn: the
\* prompt is built once and added to those of the handlers before it
promptAfter(before, withTurn, avatarId) ==
    CHOOSE done \in
        {[history |-> built.history, memories |-> built.memories,
          prompts |-> Append(before.prompts, built.prompt)] :
            built \in {buildPrompt(withTurn, before.memories, avatarId)}} : TRUE

\* lines 106-130 of one released handler, after the handlers before it
releaseAfter(before, avatarId, bufs, t) ==
    CHOOSE done \in
        {promptAfter(before, withTurn, avatarId) :
            withTurn \in {addUserMessage(before.history,
                              messageWithSpeaker(avatarId,
                                  getAggregatedContent(bufs, avatarId, t)))}} : TRUE

\* chat.ts lines 106-130 run by the handlers released for the speakers ids[1..k],
\* one after the other: each takes the aggregated content of its speaker from
\* bufs at time t, appends its user turn and builds its prompt
RECURSIVE afterReleases(_, _, _, _, _, _)
afterReleases(ids, k, h, mems, bufs, t) ==
    IF k = 0 THEN [history |-> h, memories |-> mems, prompts |-> << >>]
    ELSE CHOOSE done \in
             {releaseAfter(before, ids[k], bufs, t) :
                 before \in {afterReleases(ids, k - 1, h, mems, bufs, t)}} : TRUE

\* chat.ts lines 104-149: the request was released, has taken the aggregated
\* content of its speaker at time t, appended its user turn to the history h
\* and calls the provider
Released(r, avatarId, how, decision, bufs, h, t) ==
    [pc |-> "llm", avatarId |-> avatarId, deadline |-> 0,
     via |-> how, decision |-> decision,
     aggregated |-> getAggregatedContent(bufs, avatarId, t),
     historyLen |-> Len(h)]

\* res.status(code).send(...): the handler of request r returns
Finished(r, code) ==
    /\ req' = [req EXCEPT ![r] = IdleRequest]
    /\ answered' = [route |-> "chat", avatarId |-> req[r].avatarId, status |-> code]

\* POST /chat with a chat message: onMessageReceived, then waitForDecision
Ingest(r, avatarId, isDirectMention) ==
    /\ req[r].pc = "idle"
    /\ \A q \in Requests : q < r => req[q].pc # "idle"
    /\ received < MaxMessages
    /\ received' = received + 1
    /\ check(rateLimiter, now).allowed
    /\ rateLimiter' = check(rateLimiter, now).limiter
    /\ answered' = NoAnswer
    /\ buffers' = addMessage(buffers, avatarId, isDirectMention, now)
    /\ LET tr == IF startsListening(state)
                 THEN transitionTo(state, stateEnteredAt, "LISTENING", now)
                 ELSE [state |-> state, stateEnteredAt |-> stateEnteredAt]
       IN  /\ state' = tr.state
           /\ stateEnteredAt' = tr.stateEnteredAt
    /\ IF pendingDecisions[avatarId].shouldRespond
       THEN /\ pendingDecisions' = deletePending(pendingDecisions, avatarId)
            /\ req' = [req EXCEPT ![r] =
                          Released(r, avatarId, "pending", pendingDecisions[avatarId],
                                   buffers', history, now)]
            /\ \E done \in {afterReleases(<<avatarId>>, 1, history, memories,
                                            buffers', now)} :
                   /\ history' = done.history
                   /\ memories' = done.memories
                   /\ prompts' = done.prompts
            /\ listeners' = listeners
       ELSE /\ pendingDecisions' = pendingDecisions
            /\ req' = [req EXCEPT ![r] =
                          [IdleRequest EXCEPT !.pc = "waiting", !.avatarId = avatarId,
                                              !.deadline = now + listeningMs]]
            /\ history' = history
            /\ memories' = memories
            /\ prompts' = << >>
            /\ listeners' = Append(listeners, r)
    /\ UNCHANGED <<now, activeTarget, lastResponseTime, config>>
    /\ verdict' = NoDecision

\* the setTimeout callback of waitForDecision; the handler then answers 202
Timeout(r) ==
    /\ req[r].pc = "waiting"
    /\ timerDue(r)
    /\ listeners' = removeListeners(listeners, {r})
    /\ Finished(r, 202)
    /\ UNCHANGED <<now, state, stateEnteredAt, activeTarget,
                   pendingDecisions, buffers, lastResponseTime, history, received,
                   memories, rateLimiter, config>>
    /\ prompts' = << >>
    /\ verdict' = NoDecision

handleIdleTick ==
    /\ state = "IDLE"
    /\ LET tr == IF getTotalBufferSize(buffers) > 0
                 THEN transitionTo(state, stateEnteredAt, "LISTENING", now')
                 ELSE [state |-> state, stateEnteredAt |-> stateEnteredAt]
       IN  /\ state' = tr.state
           /\ stateEnteredAt' = tr.stateEnteredAt
    /\ verdict' = NoDecision
    /\ prompts' = << >>
    /\ UNCHANGED <<activeTarget, pendingDecisions, listeners, buffers,
                   lastResponseTime, req, history, memories>>

handleListeningTimeout ==
    /\ state = "LISTENING"
    /\ now' - stateEnteredAt > listeningMs
    /\ buffers' = cleanExpiredMessages(buffers, now')
    /\ state' = "IDLE"
    /\ stateEnteredAt' = now'
    /\ verdict' = NoDecision
    /\ prompts' = << >>
    /\ UNCHANGED <<activeTarget, pendingDecisions, listeners, lastResponseTime, req,
                   history, memories>>

handleListeningDecision ==
    /\ state = "LISTENING"
    /\ ~(now' - stateEnteredAt > listeningMs)
    /\ \E rnds \in [1..Len(buffers) -> 0..(RandomSteps - 1)],
          chance \in 0..(ChanceSteps - 1) :
        LET d == makeDecision(buffers, lastResponseTime, now', rnds, chance)
            decision == [shouldRespond |-> d.shouldRespond,
                         targetAvatarId |-> d.targetAvatarId, madeAt |-> now']
            \* the listeners resolve in registration order, and so do the
            \* continuations of their handlers
            wokenSeq == SelectSeq(listeners,
                                  LAMBDA x : isForWaiter(decision, req[x].avatarId))
            woken == {wokenSeq[k] : k \in 1..Len(wokenSeq)}
            turnOf(r) == CHOOSE k \in 1..Len(wokenSeq) : wokenSeq[k] = r
            ids == [k \in 1..Len(wokenSeq) |-> req[wokenSeq[k]].avatarId]
            after(k) == afterReleases(ids, k, history, memories, buffers, now')
        IN  /\ lastResponseTime' = d.lastResponseTime
            /\ verdict' = IF d.shouldRespond THEN decision ELSE NoDecision
            /\ IF d.shouldRespond /\ d.targetAvatarId # NoTarget
               THEN IF ~hasListeners(listeners)
                    THEN /\ pendingDecisions' =
                                [pendingDecisions EXCEPT ![d.targetAvatarId] = decision]
                         /\ prompts' = << >>
                         /\ UNCHANGED <<state, stateEnteredAt, activeTarget, listeners,
                                        req, history, memories>>
                    ELSE /\ activeTarget' = d.targetAvatarId
                         /\ state' = "THINKING"
                         /\ stateEnteredAt' = now'
                         /\ listeners' = removeListeners(listeners, woken)
                         /\ req' = [r \in Requests |->
                                      IF r \in woken
                                      THEN Released(r, req[r].avatarId, "broadcast", decision,
                                                    buffers,
                                                    after(turnOf(r) - 1).history, now')
                                      ELSE req[r]]
                         /\ \E done \in {after(Len(wokenSeq))} :
                                /\ history' = done.history
                                /\ memories' = done.memories
                                /\ prompts' = done.prompts
                         /\ pendingDecisions' = pendingDecisions
               ELSE /\ prompts' = << >>
                    /\ UNCHANGED <<state, stateEnteredAt, activeTarget, pendingDecisions,
                                   listeners, req, history, memories>>
    /\ buffers' = buffers

\* a THINKING tick without the timeout of lines 300-312
ignoreThinkingTimeout ==
    /\ state = "THINKING"
    /\ verdict' = NoDecision
    /\ prompts' = << >>
    /\ UNCHANGED <<buffers, activeTarget, state, stateEnteredAt, pendingDecisions,
                   listeners, lastResponseTime, req, history, memories>>

handleThinkingTick ==
    /\ state = "THINKING"
    /\ IF now' - stateEnteredAt > thinkingMs
       THEN /\ buffers' = IF activeTarget # NoTarget
                          THEN clearBuffer(buffers, activeTarget) ELSE buffers
            /\ activeTarget' = NoTarget
            /\ state' = "IDLE"
            /\ stateEnteredAt' = now'
       ELSE UNCHANGED <<buffers, activeTarget, state, stateEnteredAt>>
    /\ verdict' = NoDecision
    /\ prompts' = << >>
    /\ UNCHANGED <<pendingDecisions, listeners, lastResponseTime, req, history,
                   memories>>

handleSpeakingTick ==
    /\ state = "SPEAKING"
    /\ IF now' - stateEnteredAt > speakingCooldownMs
       THEN /\ state' = IF getTotalBufferSize(buffers) > 0 THEN "LISTENING" ELSE "IDLE"
            /\ stateEnteredAt' = now'
       ELSE UNCHANGED <<state, stateEnteredAt>>
    /\ verdict' = NoDecision
    /\ prompts' = << >>
    /\ UNCHANGED <<activeTarget, pendingDecisions, listeners, buffers,
                   lastResponseTime, req, history, memories>>

\* the setInterval callback, at the next multiple of tickIntervalMs; the
\* long-poll timers due before that instant have fired
tickWithin(horizon) ==
    /\ now < horizon
    /\ \A r \in Requests : ~timerDue(r)
    /\ now' = now + tickIntervalMs
    /\ received' = received
    /\ answered' = NoAnswer
    /\ UNCHANGED <<rateLimiter, config>>
    /\ \/ handleIdleTick
       \/ handleListeningTimeout
       \/ handleListeningDecision
       \/ handleThinkingTick
       \/ handleSpeakingTick

\* the interval timer within the explored time
tick == tickWithin(MaxTime)

\* the provider returned: chat.ts lines 151-161 with onLLMResponseReady
LLMReply(r) ==
    /\ req[r].pc = "llm"
    /\ history' = addAssistantMessage(history, fullContent(req[r].avatarId))
    /\ LET marked == IF state = "THINKING" /\ activeTarget # NoTarget
                     THEN updateLastResponded(buffers, activeTarget, now)
                     ELSE buffers
       IN  buffers' = clearBuffer(marked, req[r].avatarId)
    /\ IF state = "THINKING"
       THEN /\ state' = "SPEAKING"
            /\ stateEnteredAt' = now
       ELSE UNCHANGED <<state, stateEnteredAt>>
    /\ Finished(r, 200)
    /\ UNCHANGED <<now, activeTarget, pendingDecisions, listeners,
                   lastResponseTime, received, memories, rateLimiter, config>>
    /\ prompts' = << >>
    /\ verdict' = NoDecision

\* the provider raised: chat.ts lines 205-230 with onLLMError
LLMFail(r) ==
    /\ req[r].pc = "llm"
    /\ history' = removeLastMessage(history)
    /\ IF state = "THINKING"
       THEN /\ buffers' = IF activeTarget # NoTarget
                          THEN clearBuffer(buffers, activeTarget) ELSE buffers
            /\ activeTarget' = NoTarget
            /\ state' = "IDLE"
            /\ stateEnteredAt' = now
       ELSE UNCHANGED <<buffers, activeTarget, state, stateEnteredAt>>
    /\ Finished(r, 500)
    /\ UNCHANGED <<now, pendingDecisions, listeners, lastResponseTime, received,
                   memories, rateLimiter, config>>
    /\ prompts' = << >>
    /\ verdict' = NoDecision

\* POST /chat with message 'reset': chat.ts lines 74-83 with resetState
ResetCommand ==
    /\ received < MaxMessages
    /\ received' = received + 1
    /\ check(rateLimiter, now).allowed
    /\ rateLimiter' = check(rateLimiter, now).limiter
    /\ history' = saveAndReset(history)
    /\ buffers' = clearAll(buffers)
    /\ lastResponseTime' = clearHistory(lastResponseTime)
    /\ activeTarget' = NoTarget
    /\ LET tr == transitionTo(state, stateEnteredAt, "IDLE", now)
       IN  /\ state' = tr.state
           /\ stateEnteredAt' = tr.stateEnteredAt
    /\ answered' = [route |-> "chat", avatarId |-> NoTarget, status |-> 204]
    /\ UNCHANGED <<now, pendingDecisions, listeners, req, memories, config>>
    /\ prompts' = << >>
    /\ verdict' = NoDecision

\* POST /memory/reset: createMemoryRouter
MemoryReset ==
    /\ received < MaxMessages
    /\ received' = received + 1
    /\ history' = saveAndReset(history)
    /\ answered' = [route |-> "memory", avatarId |-> NoTarget, status |-> 204]
    /\ verdict' = NoDecision
    /\ prompts' = << >>
    /\ UNCHANGED <<now, state, stateEnteredAt, activeTarget, pendingDecisions,
                   listeners, buffers, lastResponseTime, req, memories, rateLimiter,
                   config>>

Next ==
    \/ \E r \in Requests, s \in Speakers, m \in BOOLEAN : Ingest(r, s, m)
    \/ \E r \in Requests : Timeout(r)
    \/ tick
    \/ \E r \in Requests : LLMReply(r)
    \/ \E r \in Requests : LLMFail(r)
    \/ ResetCommand
    \/ MemoryReset

Spec == Init /\ [][Next]_vars

\* The interval timer and the armed long-poll timers fire: setInterval and
\* setTimeout callbacks are run by the event loop once they are due.
LiveNext == Next /\ received' <= LiveMaxMessages

LiveSpec ==
    /\ Init
    /\ [][LiveNext]_vars
    /\ WF_vars(tick)
    /\ \A r \in Requests : WF_vars(Timeout(r))

\* The same event loop when the speakers fall silent: POST bodies arrive only
\* during the first QuietIngestTicks intervals, at most LiveMaxMessages of
\* them, and the interval timer keeps firing for QuietTicks intervals, long
\* enough for every utterance to expire and for every state timeout to pass.
\* Provider calls may return at any time or never.
QuietMaxTime == Epoch + QuietTicks * tickIntervalMs

QuietTick == tickWithin(QuietMaxTime)

QuietNext ==
    \/ /\ now <= Epoch + QuietIngestTicks * tickIntervalMs
       /\ received < LiveMaxMessages
       /\ \/ \E r \in Requests, s \in Speakers, m \in BOOLEAN : Ingest(r, s, m)
          \/ ResetCommand
          \/ MemoryReset
    \/ \E r \in Requests : Timeout(r)
    \/ QuietTick
    \/ \E r \in Requests : LLMReply(r)
    \/ \E r \in Requests : LLMFail(r)

QuietSpec ==
    /\ Init
    /\ [][QuietNext]_vars
    /\ WF_vars(QuietTick)
    /\ \A r \in Requests : WF_vars(Timeout(r))

\* ------------------------------------------------- refusals at the boundary
\* The engine behind a rate limit of 1..MaxRateLimit requests per window,
\* taking the requests that chat.ts refuses before the flow starts as well.
BoundaryInit ==
    /\ config \in {[DefaultConfig EXCEPT !.maxRequestsPerHour = m] : m \in 1..MaxRateLimit}
    /\ ServicesInit
    /\ EngineInit

\* chat.ts lines 37-48: the limiter refuses, the handler answers 429
RateLimited ==
    /\ received < MaxMessages
    /\ received' = received + 1
    /\ ~check(rateLimiter, now).allowed
    /\ rateLimiter' = check(rateLimiter, now).limiter
    /\ answered' = [route |-> "chat", avatarId |-> NoTarget, status |-> 429]
    /\ verdict' = NoDecision
    /\ prompts' = << >>
    /\ UNCHANGED <<now, state, stateEnteredAt, activeTarget, pendingDecisions,
                   listeners, buffers, lastResponseTime, req, history, memories,
                   config>>

\* chat.ts lines 50-63: the limiter has counted the request; the body lacks
\* the speaker or the message ('' stands for a missing field) and the handler
\* answers 400
Invalid(speaker, userMessage) ==
    /\ received < MaxMessages
    /\ received' = received + 1
    /\ check(rateLimiter, now).allowed
    /\ rateLimiter' = check(rateLimiter, now).limiter
    /\ speaker = "" \/ userMessage = ""
    /\ answered' = [route |-> "chat", avatarId |-> NoTarget, status |-> 400]
    /\ verdict' = NoDecision
    /\ prompts' = << >>
    /\ UNCHANGED <<now, state, stateEnteredAt, activeTarget, pendingDecisions,
                   listeners, buffers, lastResponseTime, req, history, memories,
                   config>>

BoundaryNext ==
    \/ Next
    \/ RateLimited
    \/ \E speaker \in Speakers \cup {""}, userMessage \in {"", "hi"} :
           Invalid(speaker, userMessage)

BoundarySpec == BoundaryInit /\ [][BoundaryNext]_vars

\* ------------------------------------------------ the rate limiter on its own
\* check() and getStatus() called in any order under limits of 0..MaxWindowLimit
\* requests per window, while time passes in steps of half a window; answered
\* holds the RateLimitStatus returned by the last call.
LimiterInit ==
    /\ config \in {[DefaultConfig EXCEPT !.maxRequestsPerHour = m] : m \in 0..MaxWindowLimit}
    /\ ServicesInit
    /\ EngineInit

Check ==
    /\ \E done \in {check(rateLimiter, now)} :
           /\ rateLimiter' = done.limiter
           /\ answered' = [route |-> "check", allowed |-> done.allowed,
                           current |-> done.limiter.requestCount,
                           max |-> config.maxRequestsPerHour,
                           resetTime |-> done.limiter.windowStartTime + windowMs]
    /\ UNCHANGED <<now, state, stateEnteredAt, activeTarget, pendingDecisions,
                   listeners, buffers, lastResponseTime, req, history, memories,
                   config, prompts, received, verdict>>

GetStatus ==
    /\ answered' = [route |-> "getStatus"] @@ getStatus(rateLimiter)
    /\ UNCHANGED <<now, state, stateEnteredAt, activeTarget, pendingDecisions,
                   listeners, buffers, lastResponseTime, req, history, memories,
                   rateLimiter, config, prompts, received, verdict>>

\* half a window passes
Elapse ==
    /\ now < Epoch + MaxElapses * (windowMs \div 2)
    /\ now' = now + windowMs \div 2
    /\ UNCHANGED <<state, stateEnteredAt, activeTarget, pendingDecisions,
                   listeners, buffers, lastResponseTime, req, history, memories,
                   rateLimiter, config, prompts, received, verdict, answered>>

LimiterNext == Check \/ GetStatus \/ Elapse

LimiterSpec == LimiterInit /\ [][LimiterNext]_vars

\* ---------------------------------------- makeDecision on given buffers
\* The buffers of two speakers that were never responded to, with every count
\* of utterances up to the default per-speaker cap, with or without a direct
\* mention, every age of the buffer that changes the decay, and both orders of
\* the Map; the decision layer has no record.  Decide is one makeDecision call
\* whose Math.random() draws are all 0.
DecisionAges == {0, msPerMinute, (maxTimeDecay \div timeDecayRate) * msPerMinute,
                 2 * (maxTimeDecay \div timeDecayRate) * msPerMinute}
DecisionNow == Epoch + 2 * (maxTimeDecay \div timeDecayRate) * msPerMinute

GivenBuffer(avatarId, n, mention, age) ==
    [avatarId |-> avatarId,
     messages |-> [k \in 1..n |-> [receivedAt |-> DecisionNow,
                                    isDirectMention |-> (mention /\ k = n)]],
     firstMessageAt |-> DecisionNow - age,
     totalMessages |-> n,
     lastRespondedAt |-> 0]

DecisionInit ==
    /\ now = DecisionNow
    /\ state = "LISTENING"
    /\ stateEnteredAt = DecisionNow
    /\ activeTarget = NoTarget
    /\ pendingDecisions = [s \in Speakers |-> NoDecision]
    /\ listeners = << >>
    /\ \E first \in Speakers, n1, n2 \in 1..defaultMaxMessagesPerAvatar,
          m1, m2 \in BOOLEAN, a1, a2 \in DecisionAges :
          LET second == CHOOSE o \in Speakers : o # first
          IN  buffers = <<GivenBuffer(first, n1, m1, a1), GivenBuffer(second, n2, m2, a2)>>
    /\ lastResponseTime = [s \in Speakers |-> 0]
    /\ req = [r \in Requests |-> IdleRequest]
    /\ config = DefaultConfig
    /\ ServicesInit
    /\ answered = NoAnswer
    /\ received = 0
    /\ verdict = NoDecision

Decide ==
    /\ verdict.madeAt = 0
    /\ LET d == makeDecision(buffers, lastResponseTime, now,
                             [i \in 1..Len(buffers) |-> 0], 0)
       IN  /\ verdict' = [shouldRespond |-> d.shouldRespond,
                          targetAvatarId |-> d.targetAvatarId, madeAt |-> now]
           /\ lastResponseTime' = d.lastResponseTime
    /\ UNCHANGED <<now, state, stateEnteredAt, activeTarget, pendingDecisions,
                   listeners, buffers, req, history, received, answered, memories,
                   rateLimiter, config, prompts>>

DecisionSpec == DecisionInit /\ [][Decide]_vars

\* ------------------------------------- the conversation service on its own
\* The methods of ConversationService and the prompt assembly of the chat
\* handler, called in any order on histories of up to MaxHistoryLen messages,
\* under every combination of the memory and budget switches, history caps
\* from 0 and context sizes in which none, some or all of the turns fit.
ConversationConfigs ==
    {[DefaultConfig EXCEPT !.memoryEnabled = m, !.budgetEnabled = b,
                           !.maxContextTokens = c, !.maxHistoryMessages = h] :
        m \in BOOLEAN, b \in BOOLEAN, c \in ContextTokens, h \in 0..maxHistoryMessages}

ConversationInit ==
    /\ config \in ConversationConfigs
    /\ ServicesInit
    /\ EngineInit

AddUser(avatarId, length) ==
    /\ Len(history) < MaxHistoryLen
    /\ history' = addUserMessage(history,
                      [messageWithSpeaker(avatarId, << >>) EXCEPT !.length = length])
    /\ prompts' = << >>
    /\ UNCHANGED <<now, state, stateEnteredAt, activeTarget, pendingDecisions,
                   listeners, buffers, lastResponseTime, req, memories, rateLimiter,
                   config, received, verdict, answered>>

\* chat.ts lines 113-130 for the speaker avatarId
Assemble(avatarId) ==
    /\ Len(history) < MaxHistoryLen
    /\ \A i \in 1..Len(memories) : memories[i].accessCount < MaxAccessCount
    /\ \E built \in {buildPrompt(history, memories, avatarId)} :
           /\ history' = built.history
           /\ memories' = built.memories
           /\ prompts' = <<built.prompt>>
    /\ UNCHANGED <<now, state, stateEnteredAt, activeTarget, pendingDecisions,
                   listeners, buffers, lastResponseTime, req, rateLimiter,
                   config, received, verdict, answered>>

AddAssistant(avatarId, length) ==
    /\ Len(history) < MaxHistoryLen
    /\ history' = addAssistantMessage(history,
                      [fullContent(avatarId) EXCEPT !.length = length])
    /\ prompts' = << >>
    /\ UNCHANGED <<now, state, stateEnteredAt, activeTarget, pendingDecisions,
                   listeners, buffers, lastResponseTime, req, memories, rateLimiter,
                   config, received, verdict, answered>>

RemoveLast ==
    /\ history' = removeLastMessage(history)
    /\ prompts' = << >>
    /\ UNCHANGED <<now, state, stateEnteredAt, activeTarget, pendingDecisions,
                   listeners, buffers, lastResponseTime, req, memories, rateLimiter,
                   config, received, verdict, answered>>

SaveAndReset ==
    /\ history' = saveAndReset(history)
    /\ prompts' = << >>
    /\ UNCHANGED <<now, state, stateEnteredAt, activeTarget, pendingDecisions,
                   listeners, buffers, lastResponseTime, req, memories, rateLimiter,
                   config, received, verdict, answered>>

ConversationNext ==
    \/ \E s \in Speakers, n \in ContentLengths : AddUser(s, n)
    \/ \E s \in Speakers : Assemble(s)
    \/ \E s \in Speakers, n \in ContentLengths : AddAssistant(s, n)
    \/ RemoveLast
    \/ SaveAndReset

ConversationSpec == ConversationInit /\ [][ConversationNext]_vars

\* ------------------------------------------ the memory service in the prompt
\* A store of MaxMemories entries as MemoryService.add leaves them (access
\* count 0), of every combination of content length and priority; entry k
\* carries the keywords keywordsOf[k].  The user turns mention any of the
\* keywords, and the prompt is assembled with memory enabled under token
\* budgets in which none, some or all of the matching entries fit.
Keywords == {"w1", "w2"}
keywordsOf == <<{"w1"}, {"w1", "w2"}, {"w2"}, {"w1"}>>
MemoryLengths == {16, 36}
MemoryPriorities == {1, 2}
MemoryBudgets == {5, 10}

MemoryStores ==
    {[k \in 1..MaxMemories |->
         [id |-> k, keywords |-> keywordsOf[k], length |-> f[k][1],
          priority |-> f[k][2], accessCount |-> 0]] :
        f \in [1..MaxMemories -> MemoryLengths \X MemoryPriorities]}

MemoryInit ==
    /\ config \in {[DefaultConfig EXCEPT !.tokenBudget = b, !.budgetEnabled = e] :
                      b \in MemoryBudgets, e \in BOOLEAN}
    /\ history = <<SystemMessage>>
    /\ memories \in MemoryStores
    /\ rateLimiter = [requestCount |-> 0, windowStartTime |-> Epoch]
    /\ prompts = << >>
    /\ EngineInit

\* addUserMessage of a turn whose text contains the keywords words
Hear(avatarId, words) ==
    /\ Len(history) <= MaxMemoryTurns
    /\ history' = addUserMessage(history,
                      [messageWithSpeaker(avatarId, << >>) EXCEPT !.words = words])
    /\ prompts' = << >>
    /\ UNCHANGED <<now, state, stateEnteredAt, activeTarget, pendingDecisions,
                   listeners, buffers, lastResponseTime, req, memories, rateLimiter,
                   config, received, verdict, answered>>

MemoryNext ==
    \/ \E s \in Speakers, words \in SUBSET Keywords : Hear(s, words)
    \/ \E s \in Speakers : Assemble(s)
    \/ SaveAndReset

MemorySpec == MemoryInit /\ [][MemoryNext]_vars

TypeOK ==
    /\ state \in {"IDLE", "LISTENING", "THINKING", "SPEAKING"}
    /\ activeTarget \in Speakers \cup {NoTarget}
    /\ \A r \in Requests : req[r].pc \in {"idle", "waiting", "llm"}
    /\ answered.status \in {0, 200, 202, 204, 400, 429, 500}

\* ------------------------------------------------- vocabulary of the claims
InFlight == {r \in Requests : req[r].pc = "llm"}
WaitersFor(T) == {r \in Requests : req[r].pc = "waiting" /\ req[r].avatarId = T}
lastRespondedAtOf(bufs, avatarId) ==
    IF has(bufs, avatarId) THEN bufs[indexOf(bufs, avatarId)].lastRespondedAt ELSE 0

\* this step is a tick whose makeDecision returned a respond verdict for T
RespondVerdict(T) ==
    /\ now' # now
    /\ verdict'.shouldRespond
    /\ verdict'.targetAvatarId = T

\* this step is a /chat request for S whose waitForDecision returned at once
ConsumeStep(r, S) ==
    /\ req[r].pc = "idle"
    /\ req'[r].pc = "llm"
    /\ req'[r].avatarId = S

\* this step returns the LLM reply of request r with status 200
ReplyStep(r) ==
    /\ req[r].pc = "llm"
    /\ req'[r].pc = "idle"
    /\ answered'.status = 200

\* C1: at most one request at a time is between "waitForDecision returned
\* decided" and the end of its LLM call.
C1_AtMostOneInFlightTurn == Cardinality(InFlight) <= 1

\* C2: the active target is non-null if and only if the state is THINKING.
C2_ActiveTargetIffThinking == (activeTarget # NoTarget) <=> (state = "THINKING")

\* C3: a LISTENING tick with a respond verdict for T while no waitForDecision
\* call for T is registered stores the verdict in the pending map under T,
\* keeps the state LISTENING and sets no active target, whether or not
\* waiters for other speakers are registered.
C3_VerdictParkedWithoutWaiterForTarget ==
    [][\A T \in Speakers :
        (RespondVerdict(T) /\ WaitersFor(T) = {}) =>
            /\ pendingDecisions'[T] = verdict'
            /\ state' = "LISTENING"
            /\ activeTarget' = activeTarget]_vars

\* C4: a waitForDecision(S) call that consumes a pending verdict returns decided
\* at once and the machine is in THINKING with active target S before the
\* caller's LLM call runs.
C4_PendingConsumeEntersThinking ==
    [][\A r \in Requests, S \in Speakers :
        ConsumeStep(r, S) =>
            /\ req'[r].via = "pending"
            /\ state' = "THINKING"
            /\ activeTarget' = S]_vars

\* C5: every reply returned for speaker S, released by broadcast or by the
\* pending slot, sets the buffer-side last-responded-at of S and leaves the
\* last-responded-at of every other speaker unchanged (stated for a speaker
\* whose buffer entry still exists when the reply is returned).
C5_ReplyMarksExactlyItsSpeaker ==
    [][\A r \in Requests :
        (ReplyStep(r) /\ has(buffers, req[r].avatarId)) =>
            /\ lastRespondedAtOf(buffers', req[r].avatarId) = now
            /\ \A o \in Speakers \ {req[r].avatarId} :
                  lastRespondedAtOf(buffers', o) = lastRespondedAtOf(buffers, o)]_vars

\* C6: every speaker buffer holds at most maxMessagesPerAvatar utterances and
\* all buffers together hold at most maxTotalBufferSize.
C6_BufferCaps ==
    /\ \A i \in 1..Len(buffers) : Len(buffers[i].messages) <= maxMessagesPerAvatar
    /\ getTotalBufferSize(buffers) <= maxTotalBufferSize

\* two speakers fill the total cap after more messages than it admits were received
C6_Witness ==
    /\ received > maxTotalBufferSize
    /\ getTotalBufferSize(buffers) = maxTotalBufferSize
    /\ Len(buffers) = 2

AllowedTransitions ==
    {<<"IDLE", "LISTENING">>, <<"LISTENING", "THINKING">>, <<"LISTENING", "IDLE">>,
     <<"THINKING", "SPEAKING">>, <<"THINKING", "IDLE">>, <<"SPEAKING", "LISTENING">>,
     <<"SPEAKING", "IDLE">>}

\* C7: the machine starts in IDLE and every state change is one of
\* IDLE->LISTENING, LISTENING->THINKING, LISTENING->IDLE, THINKING->SPEAKING,
\* THINKING->IDLE, SPEAKING->LISTENING, SPEAKING->IDLE (a reset only leads to IDLE).
C7_OnlyAllowedTransitions ==
    /\ state = "IDLE"
    /\ [][state' # state => <<state, state'>> \in AllowedTransitions]_vars

\* the cooldown after a reply is over and the machine listens again
C7_Witness ==
    /\ state = "LISTENING"
    /\ \E i \in 1..Len(buffers) : buffers[i].lastRespondedAt # 0
    /\ getTotalBufferSize(buffers) > 0

\* C8: a waitForDecision(S) call registered when a tick produces a respond
\* verdict for S returns decided with that verdict, and the verdict is not
\* parked as pending.
C8_RegisteredWaiterIsWoken ==
    [][\A T \in Speakers :
        (RespondVerdict(T) /\ WaitersFor(T) # {}) =>
            /\ \A r \in WaitersFor(T) :
                  /\ req'[r].pc = "llm"
                  /\ req'[r].decision = verdict'
                  /\ r \notin {listeners'[i] : i \in 1..Len(listeners')}
            /\ pendingDecisions' = pendingDecisions]_vars

\* a tick has just released a registered waiter with its verdict
C8_Witness ==
    /\ verdict.shouldRespond
    /\ \E r \in Requests : /\ req[r].pc = "llm"
                           /\ req[r].via = "broadcast"
                           /\ req[r].decision = verdict

C10_PendingConsumedOnce ==
    /\ [](\A r1, r2 \in InFlight :
            (r1 # r2 /\ req[r1].via = "pending" /\ req[r2].via = "pending") =>
                req[r1].decision # req[r2].decision)
    /\ [][\A r \in Requests, S \in Speakers :
            (ConsumeStep(r, S) /\ req'[r].via = "pending") =>
                pendingDecisions'[S] = NoDecision]_vars

\* a request was released from the pending slot, which is empty now
C10_Witness ==
    \E r \in InFlight : /\ req[r].via = "pending"
                        /\ pendingDecisions[req[r].avatarId] = NoDecision

\* C11: every waitForDecision(S, timeout) call eventually returns, decided or
\* not-decided by timeout, whatever ticks, resets and other waiters occur in
\* between (stated for the waits whose timer falls within the explored time).
C11_WaitEventuallyReturns ==
    \A r \in Requests :
        (req[r].pc = "waiting" /\ req[r].deadline < MaxTime + tickIntervalMs)
            ~> (req[r].pc # "waiting")

\* a wait has just returned not-decided while a reset was handled during it
C11_Witness ==
    /\ answered.status = 202
    /\ buffers = << >>
    /\ received > 1

\* C12: a waiter is deregistered as soon as it returns, by timeout or by a
\* matching verdict: the registered 'decision-made' listeners are exactly the
\* waitForDecision calls that have not returned yet, one listener each.
C12_ListenersAreOpenWaits ==
    /\ Len(listeners) = Cardinality({r \in Requests : req[r].pc = "waiting"})
    /\ \A r \in Requests :
          req[r].pc = "waiting" <=> (\E i \in 1..Len(listeners) : listeners[i] = r)

\* one waiter has just returned by timeout while another one stays registered
C12_Witness ==
    /\ answered.status = 202
    /\ Len(listeners) = 1
    /\ received > 1

messagesOf(bufs, avatarId) ==
    IF has(bufs, avatarId) THEN bufs[indexOf(bufs, avatarId)].messages ELSE << >>

\* this step is the handler of request r finishing after its provider call raised
FailStep(r) ==
    /\ req[r].pc = "llm"
    /\ req'[r].pc = "idle"
    /\ answered'.status = 500

\* the turn of request r is engaged: its user turn is the last entry of the
\* history and, when a tick released it, the THINKING state entered for it has
\* not ended
EngagedTurn(r) ==
    /\ req[r].pc = "llm"
    /\ Len(history) = req[r].historyLen + 1
    /\ req[r].via = "broadcast" =>
          (state = "THINKING" /\ activeTarget = req[r].avatarId)

\* C13: after an LLM failure in an engaged turn for speaker S, once the handler
\* finishes, the history has the length it had before the user turn was
\* appended, S's buffer holds no utterances, the state is IDLE and the active
\* target is null, whether S was released by broadcast or by the pending slot.
C13_FailureRollsBackTurn ==
    [][\A r \in Requests :
        (FailStep(r) /\ EngagedTurn(r)) =>
            /\ Len(history') = req[r].historyLen
            /\ messagesOf(buffers', req[r].avatarId) = << >>
            /\ state' = "IDLE"
            /\ activeTarget' = NoTarget]_vars

\* this step handles the in-band reset command of POST /chat
ResetStep == answered'.route = "chat" /\ answered'.status = 204

\* this step handles POST /memory/reset
MemoryResetStep == answered'.route = "memory" /\ answered'.status = 204

\* C14: after an in-band reset command has been handled, all buffers are
\* empty, the decision layer's last-response bookkeeping is empty, the active
\* target is null, the state is IDLE and the history is exactly [system],
\* whatever the state was before.
C14_ResetCommandIsComplete ==
    [][ResetStep =>
            /\ buffers' = << >>
            /\ \A S \in Speakers : lastResponseTime'[S] = 0
            /\ activeTarget' = NoTarget
            /\ state' = "IDLE"
            /\ history' = <<SystemMessage>>]_vars

\* a reset command has just been handled while a selected speaker's LLM call
\* is running
C14_Witness ==
    /\ answered.route = "chat"
    /\ answered.status = 204
    /\ \E r \in InFlight : /\ req[r].via = "broadcast"
                           /\ req[r].decision.madeAt = now

\* C15: POST /memory/reset resets the conversation history to [system] and
\* also resets the message buffers and the state machine (buffers empty, state
\* IDLE, active target null).
C15_MemoryResetResetsEngine ==
    [][MemoryResetStep =>
            /\ history' = <<SystemMessage>>
            /\ buffers' = << >>
            /\ state' = "IDLE"
            /\ activeTarget' = NoTarget]_vars

\* C16: a speaker's buffer entry that has a last-responded-at survives with it
\* when its utterance sequence becomes empty and through later ingests by
\* other speakers: no step other than a reset removes the entry or its
\* last-responded-at (an expiry sweep deletes an entry only if it is empty and
\* its last-responded-at is null).
C16_RespondedEntrySurvives ==
    [][\A S \in Speakers :
        (lastRespondedAtOf(buffers, S) # 0 /\ ~ResetStep) =>
            /\ has(buffers', S)
            /\ lastRespondedAtOf(buffers', S) >= lastRespondedAtOf(buffers, S)]_vars

\* the draws of one makeDecision call
ScoreDraws == [1..Len(buffers) -> 0..(RandomSteps - 1)]
ChanceDraws == 0..(ChanceSteps - 1)

\* the next tick is a LISTENING tick that calls makeDecision
DecisionDue ==
    /\ state = "LISTENING"
    /\ ~(now + tickIntervalMs - stateEnteredAt > listeningMs)

C18_LastResponseTimeTracksVerdicts ==
    [][now' # now =>
        \A S \in Speakers :
            IF verdict'.shouldRespond /\ verdict'.targetAvatarId = S
            THEN lastResponseTime'[S] = now' /\ lastResponseTime[S] # now'
            ELSE lastResponseTime'[S] = lastResponseTime[S]]_vars

\* a respond verdict was recorded for one speaker while the other speaker keeps
\* an earlier record
C18_Witness ==
    /\ verdict.shouldRespond
    /\ lastResponseTime[verdict.targetAvatarId] = now
    /\ \E S \in Speakers : /\ S # verdict.targetAvatarId
                           /\ lastResponseTime[S] # 0
                           /\ lastResponseTime[S] < now

hasMention(buffer) ==
    \E k \in 1..Len(buffer.messages) : buffer.messages[k].isDirectMention

\* C19: with the default scoring weights, responseThreshold = 50, a passing
\* chance draw and the random bonus fixed to 0, among speakers that were never
\* responded to, makeDecision chooses a speaker whose buffer contains a direct
\* mention over every speaker whose buffer contains none, whatever the message
\* counts (within the per-speaker cap) and the buffer ages.
C19_MentionBeatsNoMention ==
    verdict.madeAt # 0 =>
        \A i, j \in 1..Len(buffers) :
            (hasMention(buffers[i]) /\ ~hasMention(buffers[j])) =>
                /\ verdict.shouldRespond
                /\ verdict.targetAvatarId = buffers[i].avatarId

\* the speaker with the mention was chosen although it comes second in the Map,
\* holds one utterance in the oldest buffer, and the other speaker holds as
\* many utterances as the cap allows in a fresh buffer
C19_Witness ==
    /\ verdict.madeAt # 0
    /\ Len(buffers) = 2
    /\ hasMention(buffers[2])
    /\ ~hasMention(buffers[1])
    /\ Len(buffers[2].messages) = 1
    /\ Len(buffers[1].messages) = defaultMaxMessagesPerAvatar
    /\ now - buffers[2].firstMessageAt > (maxTimeDecay \div timeDecayRate) * msPerMinute
    /\ buffers[1].firstMessageAt = now
    /\ verdict.targetAvatarId = buffers[2].avatarId

\* this step releases request r: its handler takes the aggregated content
ReleaseStep(r) == req[r].pc # "llm" /\ req'[r].pc = "llm"

inWindow(messages, t) ==
    SelectSeq(messages, LAMBDA m : t - m.receivedAt <= aggregationWindowMs)

\* C20: for a speaker buffer that holds at least one utterance,
\* getAggregatedContent returns at least one utterance: the utterances within
\* the aggregation window in insertion order, and when no utterance is within
\* the window the result is still not empty.
C20_AggregationNeverEmpty ==
    [][\A r \in Requests :
        ReleaseStep(r) =>
            LET messages == messagesOf(buffers', req'[r].avatarId)
                recent == inWindow(messages, now')
            IN  messages # << >> =>
                    /\ req'[r].aggregated # << >>
                    /\ recent # << >> => req'[r].aggregated = recent]_vars

\* C21: after any sequence of addUserMessage, addAssistantMessage,
\* removeLastMessage, saveAndReset, trimming and prompt assembly, the first
\* element of the stored history is the persona system turn; removeLastMessage
\* on a history holding only the system turn changes nothing.
C21_SystemTurnStaysFirst ==
    /\ Len(history) >= 1
    /\ history[1] = SystemMessage
    /\ Len(history) = 1 => removeLastMessage(history) = history

\* a trim with a history cap of 1 has dropped turns, a prompt assembly has then
\* written into the stored history, and the persona turn is still first
C21_Witness ==
    /\ config.maxHistoryMessages = 1
    /\ Len(history) = 3
    /\ history[1] = SystemMessage
    /\ history[2].content.text = "hint"
    /\ history[3].role = "assistant"

\* the conversation turns of a message sequence: all but its first message
turnsOf(h) == SubSeq(h, 2, Len(h))

\* the last n elements of a sequence, all of them when it has fewer
lastOf(seq, n) == SubSeq(seq, Max(1, Len(seq) - n + 1), Len(seq))

\* C22: immediately after every addAssistantMessage the stored history has at
\* most maxHistoryMessages + 1 turns, for every configured maxHistoryMessages
\* >= 0 and every number of user turns appended before it; the kept turns are
\* the system turn plus the most recent maxHistoryMessages turns in order.
C22_AssistantAppendTrims ==
    [][\A s \in Speakers, n \in ContentLengths :
        LET message == [role |-> "assistant",
                        content |-> [fullContent(s) EXCEPT !.length = n]]
            appended == Append(history, message)
        IN  (prompts' = << >> /\ history' = addAssistantMessage(history, message.content)) =>
                /\ Len(history') <= config.maxHistoryMessages + 1
                /\ history' = <<appended[1]>>
                                 \o lastOf(turnsOf(appended), config.maxHistoryMessages)]_vars

\* the estimated cost of a turn: ceil(length / 4) + 5
turnCost(message) ==
    (message.content.length + charsPerToken - 1) \div charsPerToken + roleOverhead

RECURSIVE costOf(_)
costOf(messages) ==
    IF messages = << >> THEN 0 ELSE turnCost(Head(messages)) + costOf(Tail(messages))

\* the history budget: the context size less the tokens of the system turn
\* (capped at its share when no memories are injected)
historyBudgetOf(h) ==
    LET systemTokens == (h[1].content.length + charsPerToken - 1) \div charsPerToken
    IN  IF config.memoryEnabled
        THEN Max(0, config.maxContextTokens - systemTokens)
        ELSE config.maxContextTokens
               - Min(systemTokens,
                     (config.maxContextTokens * config.systemPromptMaxPercent) \div 100)

\* this step assembles a prompt
AssembleStep == prompts' # << >>

\* the chat turns of a prompt: what follows the persona turn, the address hint
\* and the memory turns
chatTurnsOf(prompt) == SelectSeq(prompt, LAMBDA m : m.role # "system")

\* C23: with budgeting enabled, the prompt holds the system turn followed by a
\* suffix of the conversation turns whose estimated cost totals at most the
\* history budget; when not even the newest turn fits the budget, no
\* conversation turn is returned.
C23_BudgetedHistoryFits ==
    [][(AssembleStep /\ config.budgetEnabled /\ memories = << >>) =>
        LET prompt == prompts'[1]
            turns == chatTurnsOf(prompt)
            conversationMsgs == turnsOf(history)
        IN  /\ prompt[1] = history[1]
            /\ turns = lastOf(conversationMsgs, Len(turns))
            /\ costOf(turns) <= historyBudgetOf(history)
            /\ (conversationMsgs # << >>
                  /\ turnCost(conversationMsgs[Len(conversationMsgs)])
                         > historyBudgetOf(history)) => turns = << >>]_vars

\* the memory turns of a prompt, and the entry a memory turn quotes as
\* estimateTokens reads it
memoryTurnsOf(prompt) == SelectSeq(prompt, LAMBDA m : m.content.text = "[Memory] ")
quotedBy(message) ==
    [id |-> message.content.entry, length |-> message.content.length - memoryPrefixLength]

\* the score of the stored entry id against the words of the recent texts
scoreOf(mems, words, id) ==
    LET memory == mems[CHOOSE i \in 1..Len(mems) : mems[i].id = id]
    IN  memory.priority * 10 + Cardinality(memory.keywords \cap words) * 5
            + (IF memory.accessCount > 0 THEN 2 ELSE 0)

\* C24: getRelevantMemories(texts, B) never returns entries whose estimated
\* tokens (ceil(len(content)/4) each) sum to more than B, and the prompt built
\* by getHistoryWithMemories(B) contains exactly those entries, as system turns
\* prefixed '[Memory] ', in descending score order, between the persona system
\* turn and the chat turns.
C24_MemoriesWithinBudgetInPrompt ==
    [][(AssembleStep /\ config.memoryEnabled) =>
        LET prompt == prompts'[1]
            words == recentWords(history)
            returned == getRelevantMemories(memories, words, config.tokenBudget).selected
            n == Len(returned)
            quoted == memoryTurnsOf(prompt)
        IN  /\ sumTokens(returned) <= config.tokenBudget
            /\ sumTokens([k \in 1..Len(quoted) |-> quotedBy(quoted[k])])
                   <= config.tokenBudget
            /\ Len(quoted) = n
            /\ \A k \in 1..n : /\ quoted[k].role = "system"
                               /\ quotedBy(quoted[k]).id = returned[k].id
                               /\ quotedBy(quoted[k]).length = returned[k].length
            /\ \A k \in 1..(n - 1) :
                   scoreOf(memories, words, returned[k].id)
                       >= scoreOf(memories, words, returned[k + 1].id)
            /\ prompt[1] = SystemMessage
            /\ prompt[2] = contextMessage(prompt[2].content.avatarId)
            /\ \A k \in 1..n : prompt[2 + k] = quoted[k]
            /\ SubSeq(prompt, n + 3, Len(prompt)) = turnsOf(history)]_vars

\* a prompt quoting two entries, in an order other than the one of the store,
\* while a third matching entry was left out for the budget
C24_Witness ==
    /\ config.memoryEnabled
    /\ prompts # << >>
    /\ LET quoted == memoryTurnsOf(prompts[1])
       IN  /\ Len(quoted) = 2
           /\ quoted[1].content.entry > quoted[2].content.entry
           /\ Len(matchesOf(memories, recentWords(history))) = 3

\* the ids of the entries getRelevantMemories returns for the budget
returnedIds(mems, words, maxTokens) ==
    LET returned == getRelevantMemories(mems, words, maxTokens).selected
    IN  {returned[k].id : k \in 1..Len(returned)}

\* C25: for the same memory store state and the same recent texts, every entry
\* returned by getRelevantMemories with budget B is also returned with budget
\* 2B.
C25_DoublingBudgetKeepsEntries ==
    \A B \in 0..sumTokens(memories) :
        returnedIds(memories, recentWords(history), B)
            \subseteq returnedIds(memories, recentWords(history), 2 * B)

\* after a retrieval, a store and texts for which the configured budget
\* returns some entries and twice the budget returns more
C25_Witness ==
    /\ prompts # << >>
    /\ \E i \in 1..Len(memories) : memories[i].accessCount > 0
    /\ LET small == returnedIds(memories, recentWords(history), config.tokenBudget)
           large == returnedIds(memories, recentWords(history), 2 * config.tokenBudget)
       IN  small # {} /\ small # large /\ small \subseteq large

\* C26: the address hint is one-shot: it is in the prompt sent for the current
\* turn immediately after the persona system turn and is never stored in the
\* conversation history, in every configuration (memory on; memory off with
\* budget on; both off).
C26_AddressHintIsOneShot ==
    [][AssembleStep =>
        /\ prompts'[1][1] = SystemMessage
        /\ prompts'[1][2].content.text = "hint"
        /\ \A k \in 1..Len(history') : history'[k].content.text # "hint"]_vars

\* the number of user turns in a history
userCount(h) == Len(SelectSeq(h, LAMBDA m : m.role = "user"))

\* waitForDecision of request r returns decided in this step: the handler goes
\* on to the provider with a verdict to respond to its own speaker
DecidedStep(r) ==
    /\ req[r].pc # "llm"
    /\ req'[r].pc = "llm"
    /\ req'[r].decision.shouldRespond
    /\ req'[r].decision.targetAvatarId = req'[r].avatarId

\* waitForDecision of request r returns not decided in this step and the
\* handler answers 202
DeclinedStep(r) ==
    /\ req[r].pc = "waiting"
    /\ req'[r].pc = "idle"
    /\ answered' = [route |-> "chat", avatarId |-> req[r].avatarId, status |-> 202]

\* C27: a user turn is appended to the conversation history only by a request
\* whose waitForDecision returned decided; a request that is declined (not
\* decided, answered 202) leaves the conversation history unchanged.
C27_UserTurnOnlyWhenDecided ==
    [][/\ userCount(history') > userCount(history) =>
            /\ Cardinality({r \in Requests : DecidedStep(r)})
                   = userCount(history') - userCount(history)
            /\ \A k \in (Len(history) + 1)..Len(history') :
                   history'[k].role = "user" =>
                       \E r \in Requests : /\ DecidedStep(r)
                                           /\ history'[k].content.avatarId = req'[r].avatarId
       /\ \A r \in Requests :
            /\ ~DecidedStep(r) /\ req'[r].pc = "llm" => req[r].pc = "llm"
            /\ DeclinedStep(r) => history' = history]_vars

\* a request was just declined with 202 while the history holds the user turn
\* of a decided request of another speaker and none of the declined one
C27_Witness ==
    /\ answered.route = "chat"
    /\ answered.status = 202
    /\ userCount(history) = 1
    /\ \A k \in 1..Len(history) :
           history[k].role = "user" => history[k].content.avatarId # answered.avatarId
    /\ \E r \in Requests : req[r].pc = "llm"

\* C28: when a speaker's request is ignored (its wait times out and it is
\* answered 202), that speaker's utterances are cleared from the buffer.
C28_IgnoredSpeakerIsCleared ==
    [][\A r \in Requests :
        DeclinedStep(r) => messagesOf(buffers', req[r].avatarId) = << >>]_vars

\* this step is a tick that finds THINKING older than thinkingMs
ThinkingTimeoutStep ==
    /\ state = "THINKING"
    /\ now' # now
    /\ now' - stateEnteredAt > thinkingMs

\* C29: whenever the machine is in THINKING it eventually leaves THINKING under
\* tick fairness, even if the LLM call never completes: at the latest on the
\* first tick with elapsed > thinkingMs it moves to IDLE with the active target
\* null and the former target's buffer holding no utterances (the eventuality
\* is stated for the THINKING states whose timeout falls within the explored
\* time).
C29_ThinkingIsLeft ==
    /\ (state = "THINKING" /\ stateEnteredAt + thinkingMs + tickIntervalMs <= MaxTime)
           ~> (state # "THINKING")
    /\ [](state = "THINKING" => now - stateEnteredAt <= thinkingMs)
    /\ [][ThinkingTimeoutStep =>
            /\ state' = "IDLE"
            /\ stateEnteredAt' = now'
            /\ activeTarget # NoTarget
            /\ activeTarget' = NoTarget
            /\ messagesOf(buffers', activeTarget) = << >>]_vars

\* the tick has just ended a THINKING whose provider call is still running
C29_Witness ==
    /\ state = "IDLE"
    /\ stateEnteredAt = now
    /\ activeTarget = NoTarget
    /\ \E r \in Requests :
           /\ req[r].pc = "llm"
           /\ req[r].via = "broadcast"
           /\ now - req[r].decision.madeAt > thinkingMs
           /\ now - req[r].decision.madeAt <= thinkingMs + tickIntervalMs
           /\ messagesOf(buffers, req[r].avatarId) = << >>

\* this step handles a POST /chat request
ChatRequestStep == received' = received + 1 /\ answered'.route # "memory"

\* the limiter has no request left in its window
limitReached ==
    /\ now - rateLimiter.windowStartTime <= windowMs
    /\ rateLimiter.requestCount >= config.maxRequestsPerHour

\* this step answers a request with a refusal
RefusedStep == ChatRequestStep /\ answered'.status \in {400, 429}

windowOpen == ~(now - rateLimiter.windowStartTime > windowMs)

\* this step is a check() call, a getStatus() call
CheckStep == answered'.route = "check" /\ now' = now
StatusStep == answered'.route = "getStatus" /\ now' = now

\* C31: for the rate limiter, after any sequence of check() and getStatus()
\* calls within one window, the request counter never exceeds the maximum,
\* check() increments the counter only when it returns allowed, and
\* getStatus() never changes the counter.
C31_CounterWithinLimit ==
    /\ [](rateLimiter.requestCount <= config.maxRequestsPerHour)
    /\ [][/\ (CheckStep /\ rateLimiter' # rateLimiter /\ windowOpen) =>
                /\ answered'.allowed
                /\ rateLimiter'.requestCount = rateLimiter.requestCount + 1
          /\ (CheckStep /\ windowOpen) =>
                /\ answered'.allowed <=>
                       rateLimiter.requestCount < config.maxRequestsPerHour
                /\ ~answered'.allowed => rateLimiter' = rateLimiter
                /\ answered'.current = rateLimiter'.requestCount
          /\ StatusStep =>
                /\ rateLimiter' = rateLimiter
                /\ answered'.current = rateLimiter.requestCount]_vars

\* check() has refused a request in a window that is full, after getStatus()
\* and check() calls in it
C31_Witness ==
    /\ answered.route = "check"
    /\ ~answered.allowed
    /\ config.maxRequestsPerHour > 1
    /\ rateLimiter.requestCount = config.maxRequestsPerHour
    /\ rateLimiter.windowStartTime > Epoch

\* the buffers that share the highest priority score at the time of the
\* decision, by their place in the insertion order of the Map
topScored ==
    {i \in 1..Len(buffers) :
        \A j \in 1..Len(buffers) :
            calculatePriority(buffers[i], now, 0) >= calculatePriority(buffers[j], now, 0)}

\* C32: when two or more speakers share the highest priority score,
\* makeDecision selects the one whose buffer entry was inserted earliest into
\* the buffer set.
C32_TieGoesToEarliest ==
    (verdict.madeAt # 0 /\ verdict.shouldRespond) =>
        \E i \in topScored :
            /\ \A j \in topScored : i <= j
            /\ verdict.targetAvatarId = buffers[i].avatarId

\* a respond verdict for the first of two buffers with equal scores
C32_Witness ==
    /\ verdict.madeAt # 0
    /\ verdict.shouldRespond
    /\ topScored = {1, 2}
    /\ verdict.targetAvatarId = buffers[1].avatarId
    /\ Len(buffers[1].messages) # Len(buffers[2].messages)

\* this step ingests an utterance of speaker avatarId
IngestStep(avatarId) ==
    /\ received' = received + 1
    /\ \E r \in Requests : /\ req[r].pc = "idle"
                           /\ req'[r].pc # "idle"
                           /\ req'[r].avatarId = avatarId

\* the last n elements of a sequence
suffixOf(seq, n) == SubSeq(seq, Len(seq) - n + 1, Len(seq))

\* C33: each speaker's buffer keeps its utterances in ingest order, and every
\* utterance dropped for overflow is the oldest in its scope: the per-speaker
\* cap drops that speaker's oldest utterance, and the global cap drops the
\* utterance with the smallest receipt time among all buffered utterances.
C33_OldestIsDropped ==
    /\ [](\A i \in 1..Len(buffers) :
            \A k \in 1..(Len(buffers[i].messages) - 1) :
                buffers[i].messages[k].receivedAt <= buffers[i].messages[k + 1].receivedAt)
    /\ [][\A speaker \in Speakers : IngestStep(speaker) =>
            \E isDirectMention \in BOOLEAN :
                LET message == [receivedAt |-> now, isDirectMention |-> isDirectMention]
                    offered(s) == IF s = speaker
                                  THEN Append(messagesOf(buffers, s), message)
                                  ELSE messagesOf(buffers, s)
                    kept(s) == messagesOf(buffers', s)
                    dropped(s) == Len(offered(s)) - Len(kept(s))
                    overCap(s) == IF Len(offered(s)) > maxMessagesPerAvatar THEN 1 ELSE 0
                IN  \A s \in Speakers :
                        /\ dropped(s) >= overCap(s)
                        /\ kept(s) = suffixOf(offered(s), Len(kept(s)))
                        /\ \A k \in (overCap(s) + 1)..dropped(s) :
                               \/ now - offered(s)[k].receivedAt > expiryMs
                               \/ \A o \in Speakers : \A j \in 1..Len(kept(o)) :
                                      offered(s)[k].receivedAt <= kept(o)[j].receivedAt]_vars

\* three utterances were ingested, nothing expired and nothing was cleared:
\* the total cap dropped the first speaker's first utterance, which was older
\* than everything kept
C33_Witness ==
    /\ received = 3
    /\ \A s \in Speakers : lastResponseTime[s] = 0
    /\ Len(buffers) = 2
    /\ getTotalBufferSize(buffers) = 2
    /\ now - buffers[1].firstMessageAt <= expiryMs
    /\ buffers[1].firstMessageAt < buffers[2].messages[1].receivedAt
    /\ buffers[2].messages[1].receivedAt < buffers[1].messages[1].receivedAt

\* this step is the completion (reply or error) of request r, whose THINKING
\* turn has timed out, while the machine is in THINKING for another speaker
StaleCompletionStep(r) ==
    /\ ReplyStep(r) \/ FailStep(r)
    /\ req[r].via = "broadcast"
    /\ now - req[r].decision.madeAt > thinkingMs
    /\ state = "THINKING"
    /\ activeTarget # NoTarget
    /\ activeTarget # req[r].avatarId

\* C34: a completion callback from a request for speaker A (onLLMResponseReady
\* or onLLMError, arriving after A's THINKING turn already timed out) while
\* the machine is in THINKING for a different active target B does not change
\* the state, does not set B's last-responded-at, and does not clear B's
\* buffer.
C34_StaleCompletionIsIgnored ==
    [][\A r \in Requests : StaleCompletionStep(r) =>
            /\ state' = state
            /\ activeTarget' = activeTarget
            /\ lastRespondedAtOf(buffers', activeTarget)
                   = lastRespondedAtOf(buffers, activeTarget)
            /\ messagesOf(buffers', activeTarget) = messagesOf(buffers, activeTarget)]_vars

\* the parked requests this step releases towards the provider
releasedNow == {r \in Requests : req[r].pc = "waiting" /\ req'[r].pc = "llm"}

\* C35: one respond verdict for speaker S releases at most one parked request:
\* when several requests from S are waiting at the time of the broadcast, only
\* one of them proceeds to append a user turn and call the LLM.
C35_VerdictReleasesOneRequest ==
    [][/\ Cardinality(releasedNow) <= 1
       /\ userCount(history') <= userCount(history) + 1]_vars

\* C36: after resetState(), no pending verdict produced before the reset
\* remains: the first waitForDecision(S) call after a reset is never released
\* as decided by a verdict computed before the reset.
C36_ResetDropsPendingVerdicts ==
    [][ResetStep => \A S \in Speakers : pendingDecisions'[S] = NoDecision]_vars

\* the decision tick of this step ends with a verdict to respond
RespondStep ==
    /\ verdict' # verdict
    /\ verdict'.shouldRespond

\* C37: makeDecision never returns a verdict to respond to a speaker whose
\* buffer holds no utterance: whenever a decision tick answers respond, the
\* buffer of the chosen speaker, as makeDecision read it, has at least one
\* utterance.
C37_VerdictTargetsHaveUtterances ==
    [][RespondStep => Len(messagesOf(buffers, verdict'.targetAvatarId)) > 0]_vars

\* how many entries of a sequence of utterances equal the utterance m
occurrences(seq, m) == Len(SelectSeq(seq, LAMBDA x : x = m))

\* C38: every utterance removed by the buffer clear that follows a reply to a
\* speaker was part of the aggregated content sent to the LLM for that turn:
\* the buffer of the speaker, as the reply finds it, holds no utterance beyond
\* those the request aggregated.
C38_ClearedUtterancesWereAggregated ==
    [][\A r \in Requests :
          ReplyStep(r) =>
              LET removed == messagesOf(buffers, req[r].avatarId)
              IN  \A k \in 1..Len(removed) :
                      occurrences(removed, removed[k])
                          <= occurrences(req[r].aggregated, removed[k])]_vars

\* C39: after a reset command the conversation history receives no turn from
\* a request that was waiting for its LLM reply when the reset happened: a
\* history that holds the system prompt alone stays as it is until a request
\* appends a user turn to it.
C39_ResetHistoryOnlyGainsUserTurns ==
    [][history = <<SystemMessage>> =>
          \/ history' = history
          \/ userCount(history') >= 1]_vars

\* the machine is at rest: IDLE and no utterance in any buffer
Settled ==
    /\ state = "IDLE"
    /\ getTotalBufferSize(buffers) = 0

\* C40: when no further utterance is ingested, under fairness of the interval
\* timer the machine eventually is in IDLE with no utterance buffered and
\* stays so: every buffered utterance is removed by a reply, an expiry sweep or
\* a cleanup, and no state is held forever.
C40_EventuallySettled == <>[]Settled

\* the listening timeout has just swept the last utterances away, after their
\* expiry and with no reply given: the machine is at rest
C40_Witness ==
    /\ Settled
    /\ buffers = << >>
    /\ stateEnteredAt = now
    /\ answered = NoAnswer
    /\ received = LiveMaxMessages
    /\ now > Epoch + QuietIngestTicks * tickIntervalMs + expiryMs
    /\ history = <<SystemMessage>>
    /\ \A r \in Requests : req[r].pc = "idle"

====
